---- MODULE Spec2Model ----
(***************************************************************************)
(* Model of src/src/lib.rs: the async bridge over an r2d2 pool of diesel   *)
(* connections.  Every entry point (run, transaction,                      *)
(* batch_execute_async) clones the pool handle and calls                   *)
(* tokio::task::block_in_place with a closure that checks a connection     *)
(* out of the pool, runs the caller's operation on it, drops the           *)
(* connection and returns the mapped result.                               *)
(*                                                                         *)
(* The pool (r2d2), the driver (diesel) and the runtime (tokio) are the    *)
(* environment of lib.rs.  They are modelled by their contract at the      *)
(* call sites: Pool::get blocks until a connection is idle or its timeout  *)
(* expires, dropping the PooledConnection returns it to the pool,          *)
(* Connection::transaction begins, runs the closure and commits on Ok or   *)
(* rolls back on Err, and block_in_place runs its closure on the calling   *)
(* thread after handing that thread's scheduler core to another thread.    *)
(***************************************************************************)
EXTENDS Naturals, FiniteSets, Sequences

\* Bounds of the model.
NumTasks == 2
PoolSize == 1
NumCores == 1

Tasks == 1..NumTasks
Conns == 1..PoolSize
Cores == 1..NumCores

\* The three entry points of lib.rs.
Kinds == {"run", "transaction", "batch_execute_async"}

\* Result<R, AsyncError<E>> as a tagged record.
Ok(v) == [tag |-> "Ok", val |-> v]
Err(e) == [tag |-> "Err", val |-> e]
AsyncErrorCheckout(e) == [tag |-> "Checkout", val |-> e]
AsyncErrorError(e) == [tag |-> "Error", val |-> e]
AsyncErrorCanceled == [tag |-> "Canceled", val |-> "none"]
NoResult == [tag |-> "None", val |-> "none"]

\* What a caller's closure (FnOnce(&Conn) -> Result<R, E>) can return, and
\* what Conn::batch_execute can return.
FResults == {Ok("v1"), Ok("v2"), Err("NotFound"), Err("e1")}
BatchResults == {Ok("unit"), Err("e1")}
\* The r2d2 error of a checkout that timed out, and the driver's error of a
\* failed COMMIT (converted to E by E: From<DieselError>).
PoolTimeout == "r2d2Timeout"
CommitError == "CommitFailed"

VARIABLES
    pc,            \* position of each call
    kind,          \* entry point of each call
    result,        \* the Result the call's closure produced / the caller got
    fret,          \* what the caller's operation returned when it was invoked
    invoked,       \* number of times the caller's operation was invoked
    checkout,      \* what self_.get() returned to the call
    waited,        \* whether self_.get() had to wait for a connection
    txnState,      \* how far the call's transaction got
    abandoned,     \* abandonment of the awaiting task was requested mid-call
    conn,          \* the PooledConnection each call holds, 0 when none
    idle,          \* pool: the connections available for checkout
    txn,           \* per connection: open transaction and its staged writes
    db,            \* committed rows, each named by the call that wrote it
    onCore,        \* scheduler core owned by the thread polling the call
    closureCtx,    \* the thread on which the call's closure executes
    polls,         \* number of times the call's future was polled
    table,         \* the rows a query matches, in the query's order
    opt            \* what .optional() made of the call's result

vars == <<pc, kind, result, fret, invoked, checkout, waited, txnState,
          abandoned, conn, idle, txn, db, onCore, closureCtx, polls, table,
          opt>>

callVars == <<kind, result, fret, invoked, checkout, waited, txnState>>
poolVars == <<conn, idle, txn, db>>
schedVars == <<onCore, closureCtx>>
queryVars == <<table, opt>>

NoTxn == [open |-> FALSE, writes |-> {}]

InitCalls ==
    /\ pc = [t \in Tasks |-> "none"]
    /\ kind = [t \in Tasks |-> "run"]
    /\ result = [t \in Tasks |-> NoResult]
    /\ fret = [t \in Tasks |-> NoResult]
    /\ invoked = [t \in Tasks |-> 0]
    /\ checkout = [t \in Tasks |-> "none"]
    /\ waited = [t \in Tasks |-> FALSE]
    /\ txnState = [t \in Tasks |-> "none"]
    /\ abandoned = [t \in Tasks |-> FALSE]
    /\ conn = [t \in Tasks |-> 0]
    /\ idle = Conns
    /\ txn = [c \in Conns |-> NoTxn]
    /\ db = {}
    /\ onCore = [t \in Tasks |-> 0]
    /\ closureCtx = [t \in Tasks |-> "none"]
    /\ polls = [t \in Tasks |-> 0]
    /\ opt = [t \in Tasks |-> NoResult]

\* The entry points of AsyncConnection and AsyncSimpleConnection take a
\* closure or a statement batch, no query: no table is involved.
Init ==
    /\ InitCalls
    /\ table = <<>>

----
\* Helpers.

\* The calls that hold a checked-out connection.
Holders == {t \in Tasks : conn[t] # 0}
CheckedOut == Cardinality(Holders)

\* Positions at which the closure passed to block_in_place is executing.
ClosurePcs == {"get", "wait", "have", "txn", "ftxn", "ran"}
\* Positions at which the call's future is being polled.
PollPcs == ClosurePcs \cup {"polled"}

FreeCores == {c \in Cores : \A t \in Tasks : onCore[t] # c}

----
\* Caller side: creating, polling and abandoning the future of a call.

\* An entry point is called: the async fn builds its future, nothing runs
\* until the future is polled.  Calls are numbered in creation order.
Call(t, k) ==
    /\ pc[t] = "none"
    /\ \A u \in Tasks : u < t => pc[u] # "none"
    /\ pc' = [pc EXCEPT ![t] = "new"]
    /\ kind' = [kind EXCEPT ![t] = k]
    /\ UNCHANGED <<result, fret, invoked, checkout, waited, txnState,
                   abandoned>>
    /\ UNCHANGED <<poolVars, schedVars>>
    /\ UNCHANGED <<polls, queryVars>>

\* The awaiting task is abandoned (aborted, or the runtime is shut down).  A
\* future that was never polled is dropped; a future being polled cannot be
\* dropped before its poll returns, so the request is only recorded.
Abandon(t) ==
    /\ pc[t] \in PollPcs \cup {"new"}
    /\ ~abandoned[t]
    /\ IF pc[t] = "new"
          THEN pc' = [pc EXCEPT ![t] = "dropped"] /\ UNCHANGED abandoned
          ELSE abandoned' = [abandoned EXCEPT ![t] = TRUE] /\ UNCHANGED pc
    /\ UNCHANGED <<callVars, poolVars, schedVars>>
    /\ UNCHANGED <<polls, queryVars>>

\* A worker thread that owns a scheduler core polls the future; the body
\* runs up to the block_in_place call (let self_ = self.clone()).
Poll(t) ==
    /\ pc[t] = "new"
    /\ \E c \in FreeCores : onCore' = [onCore EXCEPT ![t] = c]
    /\ pc' = [pc EXCEPT ![t] = "polled"]
    /\ UNCHANGED <<callVars, abandoned, poolVars, closureCtx>>
    /\ polls' = [polls EXCEPT ![t] = @ + 1]
    /\ UNCHANGED queryVars

\* Mutant: the closure is called directly on the worker thread, which
\* keeps its scheduler core while the closure blocks.
BlockInPlace_KeepsCore(t) ==
    /\ pc[t] = "polled"
    /\ closureCtx' = [closureCtx EXCEPT ![t] = "polling_thread"]
    /\ pc' = [pc EXCEPT ![t] = "get"]
    /\ UNCHANGED <<callVars, abandoned, poolVars, onCore>>
    /\ UNCHANGED <<polls, queryVars>>

\* Mutant: the closure is handed to a dispatcher and the future suspends
\* until it is done: it is polled a second time to fetch the result.
BlockInPlace_Suspends(t) ==
    /\ pc[t] = "polled"
    /\ closureCtx' = [closureCtx EXCEPT ![t] = "polling_thread"]
    /\ onCore' = [onCore EXCEPT ![t] = 0]
    /\ pc' = [pc EXCEPT ![t] = "get"]
    /\ polls' = [polls EXCEPT ![t] = @ + 1]
    /\ UNCHANGED <<callVars, abandoned, poolVars, queryVars>>

\* task::block_in_place(closure): the polling thread gives its scheduler
\* core away (another worker thread takes it over) and runs the closure
\* itself; the future is not suspended, its poll simply takes longer.
BlockInPlace(t) ==
    /\ pc[t] = "polled"
    /\ closureCtx' = [closureCtx EXCEPT ![t] = "polling_thread"]
    /\ onCore' = [onCore EXCEPT ![t] = 0]
    /\ pc' = [pc EXCEPT ![t] = "get"]
    /\ UNCHANGED <<callVars, abandoned, poolVars>>
    /\ UNCHANGED <<polls, queryVars>>

----
\* Inside the closure passed to block_in_place.

\* Mutant: the checkout error is wrapped in the operation variant.
MapErrCheckout_AsError(e) == AsyncErrorError(e)

\* .map_err(AsyncError::Checkout) on the error of Pool::get.
MapErrCheckout(e) == AsyncErrorCheckout(e)

\* Mutant: the closure's error is replaced by a generic one.
MapErrError_LosesCause(r) ==
    IF r.tag = "Ok" THEN r ELSE AsyncErrorError("e1")

\* Mutant: the closure's value is replaced by a default one.
MapErrError_DefaultValue(r) ==
    IF r.tag = "Ok" THEN Ok("v1") ELSE AsyncErrorError(r.val)

\* Mutant: an operation error is reported as a cancellation.
MapErrError_Canceled(r) ==
    IF r.tag = "Ok" THEN r ELSE AsyncErrorCanceled

\* .map_err(AsyncError::Error) on the Result of the caller's operation or of
\* the driver call: Ok passes through, Err(e) becomes Err(Error(e)).
MapErrError(r) == IF r.tag = "Ok" THEN r ELSE AsyncErrorError(r.val)

\* The operation of call t writes a row, named after the call, through
\* connection c: staged while c has an open transaction, else autocommitted.
Write(c, t) ==
    IF txn[c].open
      THEN /\ txn' = [txn EXCEPT ![c].writes = @ \cup {t}]
           /\ UNCHANGED db
      ELSE /\ db' = db \cup {t}
           /\ UNCHANGED txn

\* Mutant: the closure is run by a dispatcher that reports Canceled when the
\* awaiting task was abandoned while the closure ran.
BlockInPlaceReturn_CanceledIfAbandoned(t, r) ==
    IF abandoned[t] THEN AsyncErrorCanceled ELSE r

\* block_in_place returns what its closure returned.
BlockInPlaceReturn(t, r) == r

\* Mutant: the pool hands a connection out without taking it off its idle
\* list.
Get_KeepsIdle(t) ==
    /\ pc[t] \in {"get", "wait"}
    /\ \E c \in idle : conn' = [conn EXCEPT ![t] = c]
    /\ checkout' = [checkout EXCEPT ![t] = "ok"]
    /\ pc' = [pc EXCEPT ![t] = "have"]
    /\ UNCHANGED <<kind, result, fret, invoked, waited, txnState,
                   abandoned, idle, txn, db, schedVars>>
    /\ UNCHANGED <<polls, queryVars>>

\* Mutant: a call that started waiting is never given a connection.
Get_NeverWakes(t) ==
    /\ pc[t] = "get"
    /\ \E c \in idle :
          /\ idle' = idle \ {c}
          /\ conn' = [conn EXCEPT ![t] = c]
    /\ checkout' = [checkout EXCEPT ![t] = "ok"]
    /\ pc' = [pc EXCEPT ![t] = "have"]
    /\ UNCHANGED <<kind, result, fret, invoked, waited, txnState,
                   abandoned, txn, db, schedVars>>
    /\ UNCHANGED <<polls, queryVars>>

\* Mutant: the pool hands out any connection, checked out or not.
Get_AnyConnection(t) ==
    /\ pc[t] \in {"get", "wait"}
    /\ \E c \in Conns :
          /\ idle' = idle \ {c}
          /\ conn' = [conn EXCEPT ![t] = c]
    /\ checkout' = [checkout EXCEPT ![t] = "ok"]
    /\ pc' = [pc EXCEPT ![t] = "have"]
    /\ UNCHANGED <<kind, result, fret, invoked, waited, txnState,
                   abandoned, txn, db, schedVars>>
    /\ UNCHANGED <<polls, queryVars>>

\* self_.get() returns Ok(conn): an idle connection leaves the pool, at once
\* or after the call waited for one.
Get(t) ==
    /\ pc[t] \in {"get", "wait"}
    /\ \E c \in idle :
          /\ idle' = idle \ {c}
          /\ conn' = [conn EXCEPT ![t] = c]
    /\ checkout' = [checkout EXCEPT ![t] = "ok"]
    /\ pc' = [pc EXCEPT ![t] = "have"]
    /\ UNCHANGED <<kind, result, fret, invoked, waited, txnState,
                   abandoned, txn, db, schedVars>>
    /\ UNCHANGED <<polls, queryVars>>

\* self_.get() finds every connection checked out: the thread blocks in the
\* pool until a connection is returned or the pool's timeout expires.
Wait(t) ==
    /\ pc[t] = "get"
    /\ idle = {}
    /\ waited' = [waited EXCEPT ![t] = TRUE]
    /\ pc' = [pc EXCEPT ![t] = "wait"]
    /\ UNCHANGED <<kind, result, fret, invoked, checkout, txnState,
                   abandoned, poolVars, schedVars>>
    /\ UNCHANGED <<polls, queryVars>>

\* The pool's timeout expires with still no connection idle: self_.get()
\* returns Err(e) and `?` leaves the closure with Err(Checkout(e)), which
\* block_in_place hands to the caller.
GetTimeout(t) ==
    /\ pc[t] = "wait"
    /\ idle = {}
    /\ checkout' = [checkout EXCEPT ![t] = "failed"]
    /\ result' = [result EXCEPT
                    ![t] = BlockInPlaceReturn(t, MapErrCheckout(PoolTimeout))]
    /\ pc' = [pc EXCEPT ![t] = "returned"]
    /\ closureCtx' = [closureCtx EXCEPT ![t] = "none"]
    /\ UNCHANGED <<kind, fret, invoked, waited, txnState, abandoned,
                   poolVars, onCore>>
    /\ UNCHANGED <<polls, queryVars>>

\* run: f(&*conn).map_err(AsyncError::Error).
RunOperation(t) ==
    /\ pc[t] = "have"
    /\ kind[t] = "run"
    /\ Write(conn[t], t)
    /\ \E r \in FResults :
          /\ fret' = [fret EXCEPT ![t] = r]
          /\ result' = [result EXCEPT ![t] = MapErrError(r)]
    /\ invoked' = [invoked EXCEPT ![t] = @ + 1]
    /\ pc' = [pc EXCEPT ![t] = "ran"]
    /\ UNCHANGED <<kind, checkout, waited, txnState, abandoned, conn, idle,
                   schedVars>>
    /\ UNCHANGED <<polls, queryVars>>

\* batch_execute_async: conn.batch_execute(&query).map_err(AsyncError::Error).
BatchExecute(t) ==
    /\ pc[t] = "have"
    /\ kind[t] = "batch_execute_async"
    /\ Write(conn[t], t)
    /\ \E r \in BatchResults :
          /\ fret' = [fret EXCEPT ![t] = r]
          /\ result' = [result EXCEPT ![t] = MapErrError(r)]
    /\ invoked' = [invoked EXCEPT ![t] = @ + 1]
    /\ pc' = [pc EXCEPT ![t] = "ran"]
    /\ UNCHANGED <<kind, checkout, waited, txnState, abandoned, conn, idle,
                   schedVars>>
    /\ UNCHANGED <<polls, queryVars>>

\* transaction: conn.transaction(|| f(&*conn)) opens a transaction on the
\* checked-out connection ...
Begin(t) ==
    /\ pc[t] = "have"
    /\ kind[t] = "transaction"
    /\ txn' = [txn EXCEPT ![conn[t]] = [open |-> TRUE, writes |-> {}]]
    /\ txnState' = [txnState EXCEPT ![t] = "begun"]
    /\ pc' = [pc EXCEPT ![t] = "txn"]
    /\ UNCHANGED <<kind, result, fret, invoked, checkout, waited,
                   abandoned, conn, idle, db, schedVars>>
    /\ UNCHANGED <<polls, queryVars>>

\* Mutant: the closure is invoked again after its first run.
TransactionOperation_InvokesTwice(t) ==
    /\ pc[t] = "txn"
    /\ Write(conn[t], t)
    /\ \E r \in FResults :
          /\ fret' = [fret EXCEPT ![t] = r]
    /\ invoked' = [invoked EXCEPT ![t] = @ + 2]
    /\ pc' = [pc EXCEPT ![t] = "ftxn"]
    /\ UNCHANGED <<kind, result, checkout, waited, txnState, abandoned, conn,
                   idle, schedVars>>
    /\ UNCHANGED <<polls, queryVars>>

\* ... runs the caller's closure inside it ...
TransactionOperation(t) ==
    /\ pc[t] = "txn"
    /\ Write(conn[t], t)
    /\ \E r \in FResults :
          /\ fret' = [fret EXCEPT ![t] = r]
    /\ invoked' = [invoked EXCEPT ![t] = @ + 1]
    /\ pc' = [pc EXCEPT ![t] = "ftxn"]
    /\ UNCHANGED <<kind, result, checkout, waited, txnState, abandoned, conn,
                   idle, schedVars>>
    /\ UNCHANGED <<polls, queryVars>>

\* Mutant: cancellation is cooperative, an abandoned call's transaction is
\* rolled back instead of committed.
Commit_RollsBackIfAbandoned(t) ==
    /\ pc[t] = "ftxn"
    /\ fret[t].tag = "Ok"
    /\ db' = IF abandoned[t] THEN db ELSE db \cup txn[conn[t]].writes
    /\ txn' = [txn EXCEPT ![conn[t]] = NoTxn]
    /\ result' = [result EXCEPT ![t] = MapErrError(fret[t])]
    /\ txnState' = [txnState EXCEPT
                      ![t] = IF abandoned[t] THEN "rolled_back" ELSE "committed"]
    /\ pc' = [pc EXCEPT ![t] = "ran"]
    /\ UNCHANGED <<kind, fret, invoked, checkout, waited, abandoned,
                   conn, idle, schedVars>>
    /\ UNCHANGED <<polls, queryVars>>

\* ... and commits when the closure returned Ok: the staged writes become
\* visible and the closure's value is the result;
Commit(t) ==
    /\ pc[t] = "ftxn"
    /\ fret[t].tag = "Ok"
    /\ db' = db \cup txn[conn[t]].writes
    /\ txn' = [txn EXCEPT ![conn[t]] = NoTxn]
    /\ result' = [result EXCEPT ![t] = MapErrError(fret[t])]
    /\ txnState' = [txnState EXCEPT ![t] = "committed"]
    /\ pc' = [pc EXCEPT ![t] = "ran"]
    /\ UNCHANGED <<kind, fret, invoked, checkout, waited, abandoned,
                   conn, idle, schedVars>>
    /\ UNCHANGED <<polls, queryVars>>

\* Mutant: a failed commit is swallowed and the closure's value returned.
CommitFail_ReturnsOk(t) ==
    /\ pc[t] = "ftxn"
    /\ fret[t].tag = "Ok"
    /\ txn' = [txn EXCEPT ![conn[t]] = NoTxn]
    /\ result' = [result EXCEPT ![t] = MapErrError(fret[t])]
    /\ txnState' = [txnState EXCEPT ![t] = "commit_failed"]
    /\ pc' = [pc EXCEPT ![t] = "ran"]
    /\ UNCHANGED <<kind, fret, invoked, checkout, waited, abandoned,
                   conn, idle, db, schedVars>>
    /\ UNCHANGED <<polls, queryVars>>

\* the commit can fail: nothing is made visible and the driver's error,
\* converted to E, is the result in place of the closure's value;
CommitFail(t) ==
    /\ pc[t] = "ftxn"
    /\ fret[t].tag = "Ok"
    /\ txn' = [txn EXCEPT ![conn[t]] = NoTxn]
    /\ result' = [result EXCEPT ![t] = MapErrError(Err(CommitError))]
    /\ txnState' = [txnState EXCEPT ![t] = "commit_failed"]
    /\ pc' = [pc EXCEPT ![t] = "ran"]
    /\ UNCHANGED <<kind, fret, invoked, checkout, waited, abandoned,
                   conn, idle, db, schedVars>>
    /\ UNCHANGED <<polls, queryVars>>

\* Mutant: the transaction is committed although the closure returned Err.
Rollback_Commits(t) ==
    /\ pc[t] = "ftxn"
    /\ fret[t].tag = "Err"
    /\ db' = db \cup txn[conn[t]].writes
    /\ txn' = [txn EXCEPT ![conn[t]] = NoTxn]
    /\ result' = [result EXCEPT ![t] = MapErrError(fret[t])]
    /\ txnState' = [txnState EXCEPT ![t] = "rolled_back"]
    /\ pc' = [pc EXCEPT ![t] = "ran"]
    /\ UNCHANGED <<kind, fret, invoked, checkout, waited, abandoned,
                   conn, idle, schedVars>>
    /\ UNCHANGED <<polls, queryVars>>

\* it rolls back when the closure returned Err: the staged writes are
\* discarded and the closure's error is the result.
Rollback(t) ==
    /\ pc[t] = "ftxn"
    /\ fret[t].tag = "Err"
    /\ txn' = [txn EXCEPT ![conn[t]] = NoTxn]
    /\ result' = [result EXCEPT ![t] = MapErrError(fret[t])]
    /\ txnState' = [txnState EXCEPT ![t] = "rolled_back"]
    /\ pc' = [pc EXCEPT ![t] = "ran"]
    /\ UNCHANGED <<kind, fret, invoked, checkout, waited, abandoned,
                   conn, idle, db, schedVars>>
    /\ UNCHANGED <<polls, queryVars>>

\* Mutant: on the error path the connection is forgotten, not returned.
Release_LeaksOnErr(t) ==
    /\ pc[t] = "ran"
    /\ idle' = IF result[t].tag = "Ok" THEN idle \cup {conn[t]} ELSE idle
    /\ conn' = [conn EXCEPT ![t] = 0]
    /\ pc' = [pc EXCEPT ![t] = "returned"]
    /\ result' = [result EXCEPT ![t] = BlockInPlaceReturn(t, @)]
    /\ closureCtx' = [closureCtx EXCEPT ![t] = "none"]
    /\ UNCHANGED <<kind, fret, invoked, checkout, waited, txnState,
                   abandoned, txn, db, onCore>>
    /\ UNCHANGED <<polls, queryVars>>

\* Mutant: the Result is handed to every caller that is done, not only to
\* the one whose closure produced it.
Release_DeliversToAll(t) ==
    /\ pc[t] = "ran"
    /\ idle' = idle \cup {conn[t]}
    /\ conn' = [conn EXCEPT ![t] = 0]
    /\ pc' = [pc EXCEPT ![t] = "returned"]
    /\ result' = [u \in Tasks |->
                    IF u = t \/ pc[u] = "returned"
                      THEN BlockInPlaceReturn(t, result[t])
                      ELSE result[u]]
    /\ closureCtx' = [closureCtx EXCEPT ![t] = "none"]
    /\ UNCHANGED <<kind, fret, invoked, checkout, waited, txnState,
                   abandoned, txn, db, onCore>>
    /\ UNCHANGED <<polls, queryVars>>

\* End of the closure: the PooledConnection is dropped, which returns the
\* connection to the pool on the Ok and the Err path alike, and
\* block_in_place returns the closure's Result as the value of the async fn.
Release(t) ==
    /\ pc[t] = "ran"
    /\ idle' = idle \cup {conn[t]}
    /\ conn' = [conn EXCEPT ![t] = 0]
    /\ pc' = [pc EXCEPT ![t] = "returned"]
    /\ result' = [result EXCEPT ![t] = BlockInPlaceReturn(t, @)]
    /\ closureCtx' = [closureCtx EXCEPT ![t] = "none"]
    /\ UNCHANGED <<kind, fret, invoked, checkout, waited, txnState,
                   abandoned, txn, db, onCore>>
    /\ UNCHANGED <<polls, queryVars>>

----
\* OptionalExtension and the AsyncRunQueryDsl adapters.

\* Option<T>: Some(v) and None.
Some(v) == <<v>>
None == <<>>

\* Mutant: every operation error is taken for a missing row.
Optional_AnyErrorIsNone(r) ==
    IF r.tag = "Ok" THEN Ok(Some(r.val))
    ELSE IF r.tag = "Error" THEN Ok(None)
    ELSE r

\* Mutant: a missing row is left as an error.
Optional_KeepsNotFound(r) ==
    IF r.tag = "Ok" THEN Ok(Some(r.val)) ELSE r

\* OptionalExtension::optional on Result<T, AsyncError<DieselError>>.
Optional(r) ==
    IF r.tag = "Ok" THEN Ok(Some(r.val))
    ELSE IF r = AsyncErrorError("NotFound") THEN Ok(None)
    ELSE r

\* The caller applies .optional() to the Result its call returned.
OptionalStep(t) ==
    /\ pc[t] = "returned"
    /\ opt[t].tag = "None"
    /\ opt' = [opt EXCEPT ![t] = Optional(result[t])]
    /\ UNCHANGED <<pc, callVars, abandoned, poolVars, schedVars, polls, table>>

\* The adapters of AsyncRunQueryDsl: each is asc.run(closure) with a closure
\* that runs the query on the connection.
QueryKinds == {"execute_async", "load_async", "get_result_async",
               "get_results_async", "first_async"}

\* The rows a query can match: none, one or several, in the query's order.
Tables == {<<>>, <<"r1">>, <<"r2">>, <<"r1", "r2">>, <<"r2", "r1">>}

\* .limit(1) on the query.
Limit1(rows) == IF rows = <<>> THEN rows ELSE <<rows[1]>>

\* RunQueryDsl::get_result: the first row loaded, NotFound when there is
\* none.
GetResult(rows) == IF rows = <<>> THEN Err("NotFound") ELSE Ok(rows[1])

\* What the driver call of adapter k returns for a query matching rows.
QueryResult(k, rows) ==
    CASE k = "execute_async" -> Ok(Len(rows))
      [] k = "load_async" -> Ok(rows)
      [] k = "get_results_async" -> Ok(rows)
      [] k = "get_result_async" -> GetResult(rows)
      [] k = "first_async" -> GetResult(Limit1(rows))

\* The closure of an adapter runs its driver call on the connection: the
\* call returns what the query yields, or the driver fails.  Only execute
\* runs a statement that writes.
QueryOperation(t) ==
    /\ pc[t] = "have"
    /\ kind[t] \in QueryKinds
    /\ IF kind[t] = "execute_async"
          THEN Write(conn[t], t)
          ELSE UNCHANGED <<txn, db>>
    /\ \E r \in {QueryResult(kind[t], table), Err("e1")} :
          /\ fret' = [fret EXCEPT ![t] = r]
          /\ result' = [result EXCEPT ![t] = MapErrError(r)]
    /\ invoked' = [invoked EXCEPT ![t] = @ + 1]
    /\ pc' = [pc EXCEPT ![t] = "ran"]
    /\ UNCHANGED <<kind, checkout, waited, txnState, abandoned, conn, idle,
                   schedVars>>
    /\ UNCHANGED <<polls, queryVars>>

----
Next ==
    \E t \in Tasks :
        \/ \E k \in Kinds : Call(t, k)
        \/ Abandon(t)
        \/ Poll(t)
        \/ BlockInPlace(t)
        \/ Get(t)
        \/ Wait(t)
        \/ GetTimeout(t)
        \/ RunOperation(t)
        \/ BatchExecute(t)
        \/ Begin(t)
        \/ TransactionOperation(t)
        \/ Commit(t)
        \/ CommitFail(t)
        \/ Rollback(t)
        \/ Release(t)

Spec == Init /\ [][Next]_vars

\* A step of the thread that executes the closure of call t.
ClosureStep(t) ==
    \/ Get(t)
    \/ RunOperation(t)
    \/ BatchExecute(t)
    \/ Begin(t)
    \/ TransactionOperation(t)
    \/ Commit(t)
    \/ CommitFail(t)
    \/ Rollback(t)
    \/ Release(t)

\* The behaviours in which the pool's timeout never expires and no awaiting
\* task is abandoned.  Every closure runs on a thread of its own, which the
\* operating system schedules, and the caller's operation and the driver
\* calls return: a closure that can take a step eventually takes one.
NextWait ==
    \E t \in Tasks :
        \/ \E k \in Kinds : Call(t, k)
        \/ Poll(t)
        \/ BlockInPlace(t)
        \/ Wait(t)
        \/ ClosureStep(t)

SpecWait ==
    /\ Init
    /\ [][NextWait]_vars
    /\ \A t \in Tasks : WF_vars(ClosureStep(t))

\* .optional() as a function of its argument: the calls have returned any
\* Results of type Result<T, AsyncError<DieselError>>, and each caller
\* applies .optional() to its own.
OptionalInputs ==
    {Ok(v) : v \in {"v1", "v2"}}
        \cup {AsyncErrorCheckout(PoolTimeout), AsyncErrorCanceled}
        \cup {AsyncErrorError(e) : e \in {"NotFound", "e1", CommitError}}

InitOptional ==
    /\ pc = [t \in Tasks |-> "returned"]
    /\ kind = [t \in Tasks |-> "run"]
    /\ result \in [Tasks -> OptionalInputs]
    /\ fret = [t \in Tasks |-> NoResult]
    /\ invoked = [t \in Tasks |-> 0]
    /\ checkout = [t \in Tasks |-> "none"]
    /\ waited = [t \in Tasks |-> FALSE]
    /\ txnState = [t \in Tasks |-> "none"]
    /\ abandoned = [t \in Tasks |-> FALSE]
    /\ conn = [t \in Tasks |-> 0]
    /\ idle = Conns
    /\ txn = [c \in Conns |-> NoTxn]
    /\ db = {}
    /\ onCore = [t \in Tasks |-> 0]
    /\ closureCtx = [t \in Tasks |-> "none"]
    /\ polls = [t \in Tasks |-> 0]
    /\ opt = [t \in Tasks |-> NoResult]
    /\ table = <<>>

NextOptional == \E t \in Tasks : OptionalStep(t)

SpecOptional == InitOptional /\ [][NextOptional]_vars

\* The adapters called against a table, each caller applying .optional() to
\* what it got.
InitQuery ==
    /\ InitCalls
    /\ table \in Tables

NextQuery ==
    \E t \in Tasks :
        \/ \E k \in QueryKinds : Call(t, k)
        \/ Poll(t)
        \/ BlockInPlace(t)
        \/ Get(t)
        \/ Wait(t)
        \/ GetTimeout(t)
        \/ QueryOperation(t)
        \/ Release(t)
        \/ OptionalStep(t)

SpecQuery == InitQuery /\ [][NextQuery]_vars

NextAll ==
    \E t \in Tasks :
        \/ \E k \in Kinds \cup QueryKinds : Call(t, k)
        \/ Poll(t)
        \/ BlockInPlace(t)
        \/ Get(t)
        \/ Wait(t)
        \/ GetTimeout(t)
        \/ RunOperation(t)
        \/ BatchExecute(t)
        \/ Begin(t)
        \/ TransactionOperation(t)
        \/ Commit(t)
        \/ CommitFail(t)
        \/ Rollback(t)
        \/ QueryOperation(t)
        \/ Release(t)

\* Every operation of the library, called against a table of two rows.
InitAll == InitCalls /\ table = <<"r1", "r2">>

SpecAll == InitAll /\ [][NextAll]_vars

----
\* Claims.

Returned(t) == pc[t] = "returned"

\* C1: a call of run, transaction or batch_execute_async whose checkout
\* fails returns Err(Checkout(pool error)), never Error(..) or Canceled; its
\* operation is never invoked, it writes nothing and begins no transaction.
C1_CheckoutFailureIsCheckout ==
    \A t \in Tasks :
        checkout[t] = "failed" =>
            /\ Returned(t)
            /\ result[t] = AsyncErrorCheckout(PoolTimeout)
            /\ result[t].tag \notin {"Error", "Canceled", "Ok"}
            /\ invoked[t] = 0
            /\ fret[t] = NoResult
            /\ t \notin db
            /\ \A c \in Conns : t \notin txn[c].writes
            /\ txnState[t] = "none"
            /\ conn[t] = 0

\* Witness of C1: a transaction call has failed its checkout and returned.
C1_Witness ==
    \E t \in Tasks :
        /\ kind[t] = "transaction" /\ checkout[t] = "failed" /\ Returned(t)
        /\ result[t].tag = "Checkout"

\* C2: a call of run whose checkout succeeds and whose closure returns Err(e)
\* returns Err(Error(e)) with exactly that e, never Checkout or Canceled.
C2_RunErrorIsWrapped ==
    \A t \in Tasks :
        (kind[t] = "run" /\ Returned(t) /\ checkout[t] = "ok"
              /\ fret[t].tag = "Err") =>
            /\ result[t] = [tag |-> "Error", val |-> fret[t].val]
            /\ result[t].tag \notin {"Checkout", "Canceled"}

\* Witness of C2: two run calls returned the two different closure errors.
C2_Witness ==
    \A e \in {"NotFound", "e1"} :
        \E t \in Tasks :
            /\ kind[t] = "run" /\ Returned(t) /\ checkout[t] = "ok"
            /\ fret[t] = Err(e) /\ result[t] = AsyncErrorError(e)

\* C3: a call of run whose checkout succeeds and whose closure returns Ok(v)
\* returns Ok(v), v unmodified.
C3_RunOkIsIdentity ==
    \A t \in Tasks :
        (kind[t] = "run" /\ Returned(t) /\ checkout[t] = "ok"
              /\ fret[t].tag = "Ok") =>
            result[t] = [tag |-> "Ok", val |-> fret[t].val]

\* Witness of C3: two run calls returned the two different closure values.
C3_Witness ==
    \A v \in {"v1", "v2"} :
        \E t \in Tasks :
            /\ kind[t] = "run" /\ Returned(t)
            /\ fret[t] = Ok(v) /\ result[t] = Ok(v)

\* C4: transaction is atomic: when the closure of a transaction call returns
\* an error the transaction is rolled back, the call's result is that error,
\* and the closure's writes are never visible in the database.
C4_TransactionErrorRollsBack ==
    \A t \in Tasks :
        (kind[t] = "transaction" /\ fret[t].tag = "Err") =>
            /\ t \notin db
            /\ pc[t] \in {"ran", "returned"} =>
                  /\ txnState[t] = "rolled_back"
                  /\ result[t] = [tag |-> "Error", val |-> fret[t].val]
            /\ Returned(t) => \A c \in Conns : t \notin txn[c].writes

\* Witness of C4: a transaction call wrote, failed and returned, its write
\* invisible, after which another call ran on a connection.
C4_Witness ==
    \E t \in Tasks, u \in Tasks :
        /\ kind[t] = "transaction" /\ Returned(t) /\ invoked[t] = 1
        /\ fret[t].tag = "Err" /\ t \notin db
        /\ u # t /\ pc[u] = "ran" /\ waited[u]

\* C5: when the closure of a transaction call returns Ok(v), the transaction
\* is committed and the call returns Ok(v) with its writes visible; if the
\* commit fails the call returns the commit failure as Error(..) and the
\* writes are not visible.
C5_TransactionOkCommits ==
    \A t \in Tasks :
        (kind[t] = "transaction" /\ Returned(t) /\ fret[t].tag = "Ok") =>
            \/ /\ txnState[t] = "committed"
               /\ result[t] = [tag |-> "Ok", val |-> fret[t].val]
               /\ t \in db
            \/ /\ txnState[t] = "commit_failed"
               /\ result[t] = [tag |-> "Error", val |-> CommitError]
               /\ t \notin db

\* Witness of C5: one transaction committed its write, another's commit
\* failed.
C5_Witness ==
    \E t \in Tasks, u \in Tasks :
        /\ kind[t] = "transaction" /\ Returned(t) /\ invoked[t] = 1
        /\ txnState[t] = "committed" /\ t \in db
        /\ kind[u] = "transaction" /\ Returned(u) /\ invoked[u] = 1
        /\ txnState[u] = "commit_failed" /\ u \notin db

\* The calls whose closure is between its checkout and its release.
InProgress == {t \in Tasks : pc[t] \in PollPcs}

\* C6: every connection checked out by a call is returned to the pool when
\* its closure completes, on the success and the failure path alike: a call
\* that returned holds no connection, and when no call is in progress no
\* connection is checked out and the pool has all its connections.
C6_ConnectionsAreReturned ==
    /\ \A t \in Tasks : pc[t] \notin {"have", "txn", "ftxn", "ran"} => conn[t] = 0
    /\ Cardinality(idle) + CheckedOut = PoolSize
    /\ InProgress = {} => (CheckedOut = 0 /\ idle = Conns)

\* Witness of C6: every call is over, one with Ok and one with an operation
\* error, and the pool is whole.
C6_Witness ==
    /\ \A t \in Tasks : Returned(t) /\ checkout[t] = "ok"
    /\ \E t \in Tasks : result[t].tag = "Ok"
    /\ \E t \in Tasks : result[t].tag = "Error"
    /\ idle = Conns

\* C7: in every reachable state of concurrent calls against a pool of
\* capacity N, at most N connections are checked out.
C7_AtMostCapacityCheckedOut ==
    /\ CheckedOut <= PoolSize
    /\ Cardinality({t \in Tasks : pc[t] \in {"have", "txn", "ftxn", "ran"}})
          <= PoolSize

\* Witness of C7: the pool is saturated while another call wants a
\* connection.
C7_Witness ==
    /\ CheckedOut = PoolSize
    /\ \E t \in Tasks : pc[t] = "wait"

\* C8: a call issued while every connection is checked out does not fail: it
\* waits, and as long as the pool's timeout does not expire it obtains a
\* connection once holders release theirs, runs its operation and completes
\* with the operation's result, not Checkout.
C8_WaitingCallCompletes ==
    \A t \in Tasks :
        (pc[t] = "wait") ~>
            (/\ Returned(t)
             /\ checkout[t] = "ok"
             /\ invoked[t] = 1
             /\ result[t].tag \in {"Ok", "Error"})

\* Witness of C8: a call that had to wait has completed with its
\* operation's value.
C8_Witness ==
    \E t \in Tasks :
        /\ waited[t] /\ Returned(t) /\ invoked[t] = 1
        /\ result[t].tag = "Ok" /\ result[t] = fret[t]

\* C9 as stated: a call whose awaiting task was abandoned before its closure
\* finished returns Canceled.
C9_AbandonedCallIsCanceled ==
    \A t \in Tasks :
        (abandoned[t] /\ Returned(t)) => result[t] = AsyncErrorCanceled

\* C9 amended: no call returns Canceled.  The closure runs inside the poll of
\* the caller's future, so abandonment requested while it runs takes no
\* effect before it finishes: the closure runs to completion and the call
\* returns the closure's own result (Ok, Checkout or Error).
C9_AbandonedCallReturnsClosureResult ==
    \A t \in Tasks :
        /\ result[t].tag # "Canceled"
        /\ Returned(t) =>
              /\ result[t].tag \in {"Ok", "Checkout", "Error"}
              /\ checkout[t] = "ok" => invoked[t] = 1
              /\ (checkout[t] = "ok" /\ txnState[t] # "commit_failed") =>
                    result[t] = IF fret[t].tag = "Ok" THEN fret[t]
                                ELSE [tag |-> "Error", val |-> fret[t].val]

\* Witness of C9: a transaction call was abandoned while its closure ran
\* and still returned the closure's value.
C9_Witness ==
    \E t \in Tasks :
        /\ abandoned[t] /\ Returned(t) /\ kind[t] = "transaction"
        /\ result[t].tag = "Ok" /\ result[t] = fret[t]

\* C10 as stated: the closure of a call executes on an execution context
\* distinct from the one that polls the caller.
C10_ClosureOnDistinctContext ==
    \A t \in Tasks :
        pc[t] \in ClosurePcs => closureCtx[t] # "polling_thread"

\* C10 amended: the closure (checkout, operation and release) executes on
\* the very thread that polls the caller, which holds no scheduler core
\* while it does: block_in_place gave the core away, so the other tasks of
\* the scheduler can be polled while the closure blocks.
C10_ClosureOnPollingThreadWithoutCore ==
    \A t \in Tasks :
        /\ pc[t] \in ClosurePcs =>
              (closureCtx[t] = "polling_thread" /\ onCore[t] = 0)
        /\ pc[t] \notin ClosurePcs => closureCtx[t] = "none"
        /\ onCore[t] # 0 => pc[t] = "polled"

\* Witness of C10: while the closures of other calls hold every connection
\* or wait for one, a scheduler core polls a further call.
C10_Witness ==
    \E t \in Tasks, u \in Tasks :
        /\ pc[t] = "txn" /\ closureCtx[t] = "polling_thread"
        /\ pc[u] = "polled" /\ onCore[u] # 0

\* C11: optional() maps Ok(v) to Ok(Some(v)), Err(Error(NotFound)) to
\* Ok(None), and every other error (Checkout, Canceled, Error(e) with e not
\* NotFound) to the same error unchanged.
C11_OptionalMapping ==
    \A t \in Tasks :
        opt[t].tag # "None" =>
            /\ result[t].tag = "Ok" =>
                  (/\ opt[t].tag = "Ok"
                   /\ opt[t].val = <<result[t].val>>)
            /\ (result[t].tag = "Error" /\ result[t].val = "NotFound") =>
                  (opt[t].tag = "Ok" /\ opt[t].val = <<>>)
            /\ (result[t].tag \in {"Checkout", "Canceled"}
                   \/ (result[t].tag = "Error" /\ result[t].val # "NotFound")) =>
                  opt[t] = result[t]

\* Witness of C11: .optional() was applied to a missing row by one caller
\* and to Canceled by another.
C11_Witness ==
    \E t \in Tasks, u \in Tasks :
        /\ result[t] = AsyncErrorError("NotFound") /\ opt[t] = Ok(None)
        /\ result[u] = AsyncErrorCanceled /\ opt[u] = AsyncErrorCanceled

\* C12: get_result_async on a query matching no row, with a successful
\* checkout, returns Err(Error(NotFound)) and .optional() turns that into
\* Ok(None); with one matching row it returns the row and .optional() gives
\* Ok(Some(row)).
C12_GetResultAndOptional ==
    \A t \in Tasks :
        (kind[t] = "get_result_async" /\ Returned(t) /\ checkout[t] = "ok"
              /\ fret[t].val # "e1") =>
            /\ table = <<>> =>
                  /\ result[t].tag = "Error" /\ result[t].val = "NotFound"
                  /\ opt[t].tag # "None" =>
                        (opt[t].tag = "Ok" /\ opt[t].val = <<>>)
            /\ Len(table) = 1 =>
                  /\ result[t].tag = "Ok" /\ result[t].val = table[1]
                  /\ opt[t].tag # "None" =>
                        (opt[t].tag = "Ok" /\ opt[t].val = <<table[1]>>)

\* Witness of C12: get_result_async found no row and its caller got Ok(None)
\* from .optional().
C12_Witness ==
    \E t \in Tasks :
        /\ table = <<>> /\ kind[t] = "get_result_async" /\ Returned(t)
        /\ result[t].tag = "Error" /\ result[t].val = "NotFound"
        /\ opt[t].tag = "Ok" /\ opt[t].val = <<>>

\* The outcome a call is due: the Checkout error when its checkout failed,
\* the commit error when its commit failed, else its own closure's Result
\* with an Err wrapped in Error.
OwnOutcome(t) ==
    IF checkout[t] = "failed" THEN AsyncErrorCheckout(PoolTimeout)
    ELSE IF txnState[t] = "commit_failed" THEN AsyncErrorError(CommitError)
    ELSE IF fret[t].tag = "Ok" THEN fret[t]
    ELSE [tag |-> "Error", val |-> fret[t].val]

\* C13: every call yields exactly one outcome, one of success, Checkout,
\* Error or Canceled, delivered to the caller that submitted it and to no
\* other: the step that completes a call gives it the outcome of its own
\* closure and changes no other call's outcome, and the outcome of a
\* complete call never changes.
C13_ExactlyOneOutcome ==
    [][\A t \in Tasks :
          /\ (~Returned(t) /\ Returned(t)') =>
                /\ result'[t].tag \in {"Ok", "Checkout", "Error", "Canceled"}
                /\ result'[t] = OwnOutcome(t)'
                /\ \A u \in Tasks \ {t} : result'[u] = result[u]
          /\ Returned(t) => (Returned(t)' /\ result'[t] = result[t])
      ]_vars

\* Witness of C13: two calls are complete, each with the value of its own
\* closure, and the values differ.
C13_Witness ==
    \E t \in Tasks, u \in Tasks :
        /\ Returned(t) /\ fret[t] = Ok("v1") /\ result[t] = Ok("v1")
        /\ Returned(u) /\ fret[u] = Ok("v2") /\ result[u] = Ok("v2")

\* C14: no connection is held by two calls at once, and a connection held
\* by a call is not in the pool's idle set for another call to check out.
C14_NoSharedConnection ==
    /\ \A t \in Tasks, u \in Tasks :
          (t # u /\ conn[t] # 0) => conn[t] # conn[u]
    /\ \A t \in Tasks : conn[t] # 0 => conn[t] \notin idle

\* Witness of C14: a call that had to wait holds the connection another
\* call held and released before it.
C14_Witness ==
    \E t \in Tasks, u \in Tasks :
        /\ Returned(t) /\ checkout[t] = "ok"
        /\ pc[u] = "have" /\ waited[u] /\ conn[u] # 0

\* C15: against a pool of capacity 1 two concurrent calls are serialized: at
\* most one of them is between checkout and release, and the closure of the
\* second to obtain the connection is not started, nor its result produced,
\* before the first has released.
C15_CapacityOneSerializes ==
    PoolSize = 1 =>
        \A t \in Tasks, u \in Tasks :
            t # u =>
                /\ ~(pc[t] \in {"have", "txn", "ftxn", "ran"}
                       /\ pc[u] \in {"have", "txn", "ftxn", "ran"})
                /\ (checkout[t] = "ok" /\ checkout[u] = "ok") =>
                      (Returned(t) \/ Returned(u))
                /\ (invoked[t] > 0 /\ invoked[u] > 0) =>
                      (Returned(t) \/ Returned(u))

\* Witness of C15: two run calls are complete; the second waited for the
\* only connection while the first held it.
C15_Witness ==
    \E t \in Tasks, u \in Tasks :
        /\ t # u /\ PoolSize = 1
        /\ kind[t] = "run" /\ kind[u] = "run"
        /\ Returned(t) /\ checkout[t] = "ok" /\ ~waited[t]
        /\ Returned(u) /\ checkout[u] = "ok" /\ waited[u]

\* C16 as stated: each call suspends its caller exactly once, between
\* submission and result; a future that suspended once is complete at its
\* second poll.
C16_SuspendsExactlyOnce ==
    \A t \in Tasks : Returned(t) => polls[t] = 2

\* C16 amended: a call never suspends its caller.  Its future is complete
\* at its first poll, and checkout, operation and release all happen inside
\* that poll, on the polling thread; between polls a call holds no
\* connection.
C16_CompletesInFirstPoll ==
    \A t \in Tasks :
        /\ polls[t] <= 1
        /\ Returned(t) => polls[t] = 1
        /\ pc[t] \in ClosurePcs =>
              (polls[t] = 1 /\ closureCtx[t] = "polling_thread")
        /\ conn[t] # 0 => pc[t] \in ClosurePcs

\* Witness of C16: a call that had to wait for a connection completed in
\* its first poll.
C16_Witness ==
    \E t \in Tasks :
        /\ Returned(t) /\ waited[t] /\ checkout[t] = "ok"
        /\ invoked[t] = 1 /\ polls[t] = 1

\* C17: the closure given to run or transaction is invoked at most once:
\* exactly once when the checkout succeeds, not at all when it fails; and
\* the caller gets a result only from a closure that ran to completion, its
\* transaction closed and its connection released.
C17_ClosureInvokedOnce ==
    \A t \in Tasks :
        kind[t] \in {"run", "transaction"} =>
            /\ invoked[t] <= 1
            /\ checkout[t] = "failed" => invoked[t] = 0
            /\ pc[t] \in {"none", "new", "polled", "get", "wait", "have",
                          "txn", "dropped"} =>
                  (invoked[t] = 0 /\ fret[t] = NoResult)
            /\ (Returned(t) /\ checkout[t] = "ok") =>
                  /\ invoked[t] = 1
                  /\ fret[t].tag \in {"Ok", "Err"}
                  /\ conn[t] = 0
                  /\ kind[t] = "transaction" =>
                        txnState[t] \in {"committed", "commit_failed",
                                         "rolled_back"}

\* Witness of C17: one call failed its checkout and its closure never ran,
\* while the transaction call holding the connection ran its closure once.
C17_Witness ==
    \E t \in Tasks, u \in Tasks :
        /\ kind[t] = "run" /\ Returned(t) /\ checkout[t] = "failed"
        /\ invoked[t] = 0
        /\ kind[u] = "transaction" /\ Returned(u) /\ checkout[u] = "ok"
        /\ invoked[u] = 1

C19_NoOperationConstructsCanceled ==
    \A t \in Tasks :
        /\ result[t].tag \in {"None", "Ok", "Checkout", "Error"}
        /\ Returned(t) =>
              /\ result[t].tag \in {"Ok", "Checkout", "Error"}
              /\ result[t].tag = "Checkout" <=> checkout[t] = "failed"
              /\ conn[t] = 0
              /\ \A c \in Conns :
                    c \in idle \/ \E u \in Tasks : conn[u] = c

\* Witness of C19: a query adapter and a transaction are both complete, one
\* with a success and one with an Error, and the pool is whole.
C19_Witness ==
    \E t \in Tasks, u \in Tasks :
        /\ kind[t] \in QueryKinds /\ Returned(t) /\ result[t].tag = "Ok"
        /\ kind[u] = "transaction" /\ Returned(u) /\ result[u].tag = "Error"
        /\ idle = Conns

====
